---------------------------- MODULE Spec2Model ----------------------------
(***************************************************************************)
(* Model of NComC_file (main.c): conversion of an NCom byte stream to      *)
(* text.  main() opens the input, the output and the optional trigger      *)
(* file, creates the decoder, feeds the input byte by byte, routes every   *)
(* decoded update to one of the two text files with print(), reports       *)
(* progress with report(), and cleans up.                                  *)
(*                                                                         *)
(* The decoder library (NComRxC) is used through NComNewChar and its       *)
(* counters only; it is modelled as a black box driven by the input.       *)
(***************************************************************************)
EXTENDS Integers, Sequences, FiniteSets, TLC

(***************************************************************************)
(* Bounds of the model.                                                    *)
(***************************************************************************)
\* Short input files: every file of 0..MaxShortLen bytes, every byte kind.
MaxShortLen == 3
\* Long input files: about k blocks of 4096 bytes, k in 1..MaxBlocks.
MaxBlocks == 1

(***************************************************************************)
(* Program constants.                                                      *)
(***************************************************************************)
\* report() is called when (NComNumChars(nrx) & 0xFFF) == 0.
ReportMask == 4095
\* gps2machine = 315964800.0
Gps2MachineSecs == 315964800
\* if(ms < 0) ms = 0; else if(ms > 999) ms = 999;
MsMax == 999

NULL == "NULL"
EXIT_SUCCESS == "EXIT_SUCCESS"
EXIT_FAILURE == "EXIT_FAILURE"
SIGABRT == "SIGABRT"
SIGSEGV == "SIGSEGV"

OUTPUT_PACKET_REGULAR == "OUTPUT_PACKET_REGULAR"
OUTPUT_PACKET_IN1DOWN == "OUTPUT_PACKET_IN1DOWN"
OUTPUT_PACKET_OTHER == "OUTPUT_PACKET_OTHER"
PacketTypes == {OUTPUT_PACKET_REGULAR, OUTPUT_PACKET_IN1DOWN, OUTPUT_PACKET_OTHER}

(***************************************************************************)
(* Numbers.  A double holding a time is a decimal fixed-point value        *)
(* s + f / TicksPerSec with |f| < TicksPerSec and f of the sign of the     *)
(* value, as a decimal literal is written (-0.5 is s = 0, f = -5000).      *)
(* Sums are formed component-wise and are not normalised, so floor() has   *)
(* a carry or a borrow to compute.                                         *)
(***************************************************************************)
TicksPerSec == 10 * 1000

Dbl(s, f) == [s |-> s, f |-> f]

DblAdd(a, b) == [s |-> a.s + b.s, f |-> a.f + b.f]

\* The fraction of x in ticks, 0 .. TicksPerSec - 1 (\div rounds toward
\* negative infinity).
DblFrac(x) == x.f - (x.f \div TicksPerSec) * TicksPerSec

\* The whole seconds of x rounded toward zero, as the conversion
\* (time_t) x does without floor().
DblTrunc(x) ==
    LET fl == x.s + (x.f \div TicksPerSec)
    IN  IF fl < 0 /\ DblFrac(x) > 0 THEN fl + 1 ELSE fl

\* floor(x): the whole seconds of x, toward negative infinity.
DblFloor(x) == x.s + (x.f \div TicksPerSec)

\* x - t1 for a whole number of seconds t1 close to x, in ticks.
DblMinusSecs(x, t1) == (x.s - t1) * TicksPerSec + x.f

\* printf("%.Nf") of a value given in tenths of the last printed digit:
\* rounds to the nearest printed unit.
RoundTenth(v) == (v + 5) \div 10

(***************************************************************************)
(* The decoded update (the fields of NComRxC that print() reads).          *)
(* mTime, mTimeUtcOffset: seconds as Dbl; mLat, mLon: 1e-9 degrees;        *)
(* mDist2d: 1e-4 m.                                                        *)
(***************************************************************************)
Update(type, tv, time, off, lav, lat, lov, lon, dv, dist) ==
    [mOutputPacketType |-> type,
     mIsTimeValid |-> tv, mTime |-> time, mTimeUtcOffset |-> off,
     mIsLatValid |-> lav, mLat |-> lat,
     mIsLonValid |-> lov, mLon |-> lon,
     mIsDist2dValid |-> dv, mDist2d |-> dist]

(***************************************************************************)
(* print(): the text of one line, as the sequence of the pieces that the   *)
(* fprintf calls emit.  A piece is a delimiter ",", a newline, or a        *)
(* formatted value.                                                        *)
(***************************************************************************)
Delim == [k |-> ","]
Newline == [k |-> "\n"]

gps2machine == Dbl(Gps2MachineSecs, 0)

\* mMachineTime = nrx->mTime + gps2machine + nrx->mTimeUtcOffset
MachineTime(u) == DblAdd(DblAdd(u.mTime, gps2machine), u.mTimeUtcOffset)

\* t1 = (time_t) floor(mMachineTime)
WholeSecs(u) == DblFloor(MachineTime(u))

\* floor(0.5 + (mMachineTime - t1) * 1000.0)
RawMs(m, t1) == (DblMinusSecs(m, t1) * 1000 + TicksPerSec \div 2) \div TicksPerSec

\* if(ms < 0) ms = 0; else if(ms > 999) ms = 999;
Clamp(ms) == IF ms < 0 THEN 0 ELSE IF ms > MsMax THEN MsMax ELSE ms

Millis(u) == Clamp(RawMs(MachineTime(u), WholeSecs(u)))

\* "%10.3f" of mTime: whole seconds and thousandths, rounded to nearest.
FormatTime(t) ==
    LET th == RoundTenth(DblFrac(t))
        fl == DblFloor(t)
    IN  IF th = 1000 THEN [k |-> "%10.3f", s |-> fl + 1, th |-> 0]
        ELSE [k |-> "%10.3f", s |-> fl, th |-> th]

\* "%04d-%02d-%02d %02d:%02d:%02d.%03d" of localtime(&t1) and ms.  The
\* calendar fields are the environment's function of t1.
FormatCalendar(t1, ms) == [k |-> "calendar", t1 |-> t1, ms |-> ms]

TimeInvalidOneDelim == <<Delim>>

\* fprintf(fp, ",,")
TimeInvalidFields == <<Delim, Delim>>

\* fprintf(fp, "%10.3f,%04d-...%03d,", ...)
TimeValidFields(u) ==
    <<FormatTime(u.mTime), Delim,
      FormatCalendar(WholeSecs(u), Millis(u)), Delim>>

PrintLine(u) ==
    (IF u.mIsTimeValid THEN TimeValidFields(u) ELSE TimeInvalidFields)
    \o (IF u.mIsLatValid THEN <<[k |-> "%.8f", v |-> RoundTenth(u.mLat)]>> ELSE <<>>)
    \o <<Delim>>
    \o (IF u.mIsLonValid THEN <<[k |-> "%.8f", v |-> RoundTenth(u.mLon)]>> ELSE <<>>)
    \o <<Delim>>
    \o (IF u.mIsDist2dValid THEN <<[k |-> "%.3f", v |-> RoundTenth(u.mDist2d)]>> ELSE <<>>)
    \o <<Newline>>

\* localtime() returns NULL for a time it cannot represent; C libraries
\* that reject times before 1970 do so for t1 < 0.  print() dereferences
\* the result unchecked.
LocaltimeMayFail(u) == u.mIsTimeValid /\ WholeSecs(u) < 0

(***************************************************************************)
(* The input file.  A byte is, to the decoder, one of: a byte that belongs *)
(* to no packet (skipped), a byte inside a packet, or the byte that        *)
(* completes a packet and yields an update.  A file is its length and the  *)
(* kinds of its bytes: `at' gives the kind of the listed positions, every  *)
(* other byte is inside a packet.                                          *)
(***************************************************************************)
Junk == [k |-> "junk"]
Part == [k |-> "part"]
Completes(u) == [k |-> "update", u |-> u]

ByteAt(inp, i) == IF i \in DOMAIN inp.at THEN inp.at[i] ELSE Part

\* Updates of the conversion runs: every packet type, with every field
\* valid (GPS time 1000000000.0, UTC offset 18.0) or with time and
\* longitude invalid.
RunUpdate(type, full) ==
    IF full
    THEN Update(type, TRUE, Dbl(1000000000, 0), Dbl(18, 0),
                TRUE, 1500000004, TRUE, -15, TRUE, 12345)
    ELSE Update(type, FALSE, Dbl(0, 0), Dbl(0, 0),
                TRUE, 25, FALSE, 0, TRUE, 0)

RunUpdates == {RunUpdate(t, f) : t \in PacketTypes, f \in BOOLEAN}

ByteKinds == {Junk, Part} \cup {Completes(u) : u \in RunUpdates}

\* Every file of at most MaxShortLen bytes.
ShortInputs ==
    UNION {{[len |-> n, at |-> a] : a \in [1..n -> ByteKinds]} : n \in 0..MaxShortLen}

\* Files of about k blocks: one byte less than, exactly, and one byte more
\* than k * 4096 bytes; all bytes inside packets, or one update completed
\* by byte k * 4096, or a skipped byte or an update after byte k * 4096.
BlockBytes == ReportMask + 1

LongInputs ==
    UNION {
      {[len |-> k * BlockBytes + d, at |-> <<>>] : d \in {-1, 0, 1}}
      \cup
      {[len |-> k * BlockBytes + d,
        at |-> (k * BlockBytes) :> Completes(RunUpdate(t, TRUE))] :
          d \in {0, 1}, t \in {OUTPUT_PACKET_REGULAR, OUTPUT_PACKET_IN1DOWN}}
      \cup
      {[len |-> k * BlockBytes + 1, at |-> (k * BlockBytes + 1) :> b] :
          b \in {Junk, Completes(RunUpdate(OUTPUT_PACKET_REGULAR, FALSE))}}
      : k \in 1..MaxBlocks}

Inputs == ShortInputs \cup LongInputs

\* Numbers of command-line arguments, program name included.
Argcs == 2..5

(***************************************************************************)
(* State.                                                                  *)
(***************************************************************************)
VARIABLES
    argc,          \* number of arguments given to main
    ndebug,        \* the build: TRUE when assert() is compiled out (NDEBUG)
    input,         \* the contents of the input file
    pc,            \* position of main
    fpin,          \* FILE *fpin: NULL or "FILE"
    fpout,         \* FILE *fpout
    fptrig,        \* FILE *fptrig
    nrx,           \* NComRxC *nrx: "uninit", NULL or "NComRxC"
    released,      \* number of fclose / NComDestroyNComRxC calls per resource
    inPos,         \* read position of fpin
    numChars,      \* NComNumChars(nrx)
    numPackets,    \* NComNumPackets(nrx)
    skippedChars,  \* NComSkippedChars(nrx)
    snapshot,      \* the update held by nrx
    lastFed,       \* history: position in the input of the last byte fed
    signalled,     \* history: the updates for which NComNewChar returned COM_NEW_UPDATE
    outFile,       \* the lines written to fpout
    trigFile,      \* the lines written to fptrig
    stdoutLog,     \* what was printed to stdout
    stderrLog,     \* what was printed to stderr
    exitStatus     \* "running", an exit status, or the signal that ended the process

vars == <<argc, ndebug, input, pc, fpin, fpout, fptrig, nrx, released, inPos,
          numChars, numPackets, skippedChars, snapshot, lastFed, signalled,
          outFile, trigFile, stdoutLog, stderrLog, exitStatus>>

Resources == {"fpin", "fpout", "fptrig", "nrx"}

NoUpdate == [mOutputPacketType |-> "none"]

Header == [k |-> "header"]
StdoutNewline == [k |-> "newline"]
ProgressLine(chars, packets, skipped) ==
    [k |-> "report", chars |-> chars, packets |-> packets, skipped |-> skipped]

InitCommon ==
    /\ fpin = NULL
    /\ fpout = NULL
    /\ fptrig = NULL
    /\ nrx = "uninit"
    /\ released = [r \in Resources |-> 0]
    /\ inPos = 0
    /\ numChars = 0
    /\ numPackets = 0
    /\ skippedChars = 0
    /\ lastFed = 0
    /\ signalled = <<>>
    /\ outFile = <<>>
    /\ trigFile = <<>>
    /\ stdoutLog = <<>>
    /\ stderrLog = <<>>
    /\ exitStatus = "running"

Init ==
    /\ InitCommon
    /\ ndebug \in BOOLEAN
    /\ argc \in Argcs
    /\ input \in Inputs
    /\ snapshot = NoUpdate
    /\ pc = "start"

(***************************************************************************)
(* Helpers of the actions.                                                 *)
(***************************************************************************)
Release(rs) == [r \in Resources |-> IF r \in rs THEN released[r] + 1 ELSE released[r]]

\* if(fp != NULL) fclose(fp), for the three files.
NonNullFiles ==
    (IF fpin # NULL THEN {"fpin"} ELSE {})
    \cup (IF fpout # NULL THEN {"fpout"} ELSE {})
    \cup (IF fptrig # NULL THEN {"fptrig"} ELSE {})

\* fprintf(stderr, ...); <fclose ...>; exit(EXIT_FAILURE);
FailExit(msg, rs) ==
    /\ stderrLog' = Append(stderrLog, msg)
    /\ released' = Release(rs)
    /\ exitStatus' = EXIT_FAILURE
    /\ pc' = "exited"

decoderVars == <<inPos, numChars, numPackets, skippedChars, snapshot, lastFed, signalled>>
sinkVars == <<outFile, trigFile>>
envVars == <<argc, ndebug, input>>
ptrVars == <<fpin, fpout, fptrig, nrx>>

(***************************************************************************)
(* main(): setup.                                                          *)
(***************************************************************************)
\* printf(header); argc is neither 3 nor 4: usage message, exit(EXIT_FAILURE).
UsageError ==
    /\ pc = "start"
    /\ argc # 3 /\ argc # 4
    /\ stdoutLog' = Append(stdoutLog, Header)
    /\ FailExit("usage", {})
    /\ UNCHANGED <<envVars, ptrVars, decoderVars, sinkVars>>

\* printf(header); argc is 3 or 4.
ArgsOk ==
    /\ pc = "start"
    /\ ~(argc # 3 /\ argc # 4)
    /\ stdoutLog' = Append(stdoutLog, Header)
    /\ pc' = "open_in"
    /\ UNCHANGED <<envVars, ptrVars, decoderVars, sinkVars, released, stderrLog, exitStatus>>

\* fpin = fopen(argv[1], "rb") succeeds.
OpenInputOk ==
    /\ pc = "open_in"
    /\ fpin' = "FILE"
    /\ pc' = "open_out"
    /\ UNCHANGED <<envVars, fpout, fptrig, nrx, decoderVars, sinkVars, released,
                   stdoutLog, stderrLog, exitStatus>>

\* fopen returns NULL: message, exit(EXIT_FAILURE).
OpenInputFail ==
    /\ pc = "open_in"
    /\ FailExit("input", {})
    /\ UNCHANGED <<envVars, ptrVars, decoderVars, sinkVars, stdoutLog>>

\* fpout = fopen(argv[2], "wt") succeeds.
OpenOutputOk ==
    /\ pc = "open_out"
    /\ fpout' = "FILE"
    /\ pc' = "open_trig"
    /\ UNCHANGED <<envVars, fpin, fptrig, nrx, decoderVars, sinkVars, released,
                   stdoutLog, stderrLog, exitStatus>>

\* The message is printed but main goes on without the output file.
OpenOutputFailGoesOn ==
    /\ pc = "open_out"
    /\ stderrLog' = Append(stderrLog, "output")
    /\ pc' = "open_trig"
    /\ UNCHANGED <<envVars, ptrVars, decoderVars, sinkVars, released, stdoutLog, exitStatus>>

\* fopen returns NULL: message, fclose(fpin), exit(EXIT_FAILURE).
OpenOutputFail ==
    /\ pc = "open_out"
    /\ FailExit("output", NonNullFiles \cap {"fpin"})
    /\ UNCHANGED <<envVars, ptrVars, decoderVars, sinkVars, stdoutLog>>

\* argc < 4: no trigger file, fptrig stays NULL.
NoTriggerFile ==
    /\ pc = "open_trig"
    /\ ~(argc >= 4)
    /\ pc' = "create"
    /\ UNCHANGED <<envVars, ptrVars, decoderVars, sinkVars, released,
                   stdoutLog, stderrLog, exitStatus>>

\* fptrig = fopen(argv[3], "wt") succeeds.
OpenTriggerOk ==
    /\ pc = "open_trig"
    /\ argc >= 4
    /\ fptrig' = "FILE"
    /\ pc' = "create"
    /\ UNCHANGED <<envVars, fpin, fpout, nrx, decoderVars, sinkVars, released,
                   stdoutLog, stderrLog, exitStatus>>

\* fopen returns NULL: message, fclose(fpin), fclose(fpout), exit(EXIT_FAILURE).
OpenTriggerFail ==
    /\ pc = "open_trig"
    /\ argc >= 4
    /\ FailExit("trigger", NonNullFiles \cap {"fpin", "fpout"})
    /\ UNCHANGED <<envVars, ptrVars, decoderVars, sinkVars, stdoutLog>>

\* nrx = NComCreateNComRxC() succeeds: a fresh decoder, all counters 0.
CreateOk ==
    /\ pc = "create"
    /\ nrx' = "NComRxC"
    /\ pc' = "loop"
    /\ UNCHANGED <<envVars, fpin, fpout, fptrig, decoderVars, sinkVars, released,
                   stdoutLog, stderrLog, exitStatus>>

\* NComCreateNComRxC returns NULL: message, the files that are open are
\* closed, exit(EXIT_FAILURE).
CreateFail ==
    /\ pc = "create"
    /\ nrx' = NULL
    /\ FailExit("decoder", NonNullFiles)
    /\ UNCHANGED <<envVars, fpin, fpout, fptrig, decoderVars, sinkVars, stdoutLog>>

(***************************************************************************)
(* main(): the feed loop.                                                  *)
(***************************************************************************)
AtEOFOneEarly(pos, len) == pos + 1 >= len

\* fgetc(fpin) returns EOF: the read position is at the end of the file.
AtEOF(pos, len) == pos >= len

SinkForSwapped(type) ==
    CASE type = OUTPUT_PACKET_REGULAR -> "fptrig"
      [] type = OUTPUT_PACKET_IN1DOWN -> "fpout"
      [] OTHER -> "none"

\* switch(nrx->mOutputPacketType): the file pointer handed to print().
SinkFor(type) ==
    CASE type = OUTPUT_PACKET_REGULAR -> "fpout"
      [] type = OUTPUT_PACKET_IN1DOWN -> "fptrig"
      [] OTHER -> "none"

FpOf(name) == IF name = "fpout" THEN fpout ELSE fptrig

FileWriteAtFront(file, line) == <<line>> \o file

\* The fprintf calls of one print(): the line is appended to the file.
FileWrite(file, line) == Append(file, line)

\* (NComNumChars(nrx) & 0xFFF) == 0
ReportDue(n) == n % (ReportMask + 1) = 0

\* NComNewChar(nrx, c) for the next byte b of the input: the counters and
\* the update of the decoder afterwards.  It returns COM_NEW_UPDATE when b
\* completes a packet.
NComNewChar(b) ==
    /\ inPos' = inPos + 1
    /\ lastFed' = inPos + 1
    /\ numChars' = numChars + 1
    /\ numPackets' = IF b.k = "update" THEN numPackets + 1 ELSE numPackets
    /\ skippedChars' = IF b.k = "junk" THEN skippedChars + 1 ELSE skippedChars
    /\ snapshot' = IF b.k = "update" THEN b.u ELSE snapshot
    /\ signalled' = IF b.k = "update" THEN Append(signalled, b.u) ELSE signalled

\* report(nrx) when due, after the byte was handled.
ReportIfDue ==
    stdoutLog' = IF ReportDue(numChars')
                 THEN Append(stdoutLog, ProgressLine(numChars', numPackets', skippedChars'))
                 ELSE stdoutLog

NextByte == ByteAt(input, inPos + 1)

\* A byte that completes no packet.
FeedNoUpdate ==
    /\ pc = "loop"
    /\ ~AtEOF(inPos, input.len)
    /\ NextByte.k # "update"
    /\ NComNewChar(NextByte)
    /\ ReportIfDue
    /\ UNCHANGED <<envVars, ptrVars, sinkVars, released, stderrLog, exitStatus, pc>>

\* An update of a type the switch does not print (default: break).
FeedUpdateNotPrinted ==
    /\ pc = "loop"
    /\ ~AtEOF(inPos, input.len)
    /\ NextByte.k = "update"
    /\ SinkFor(NextByte.u.mOutputPacketType) = "none"
    /\ NComNewChar(NextByte)
    /\ ReportIfDue
    /\ UNCHANGED <<envVars, ptrVars, sinkVars, released, stderrLog, exitStatus, pc>>

\* An update printed to fpout or to fptrig, the file being open.
FeedUpdatePrinted ==
    /\ pc = "loop"
    /\ ~AtEOF(inPos, input.len)
    /\ NextByte.k = "update"
    /\ LET fp == SinkFor(NextByte.u.mOutputPacketType)
       IN  /\ fp # "none"
           /\ FpOf(fp) # NULL
           /\ outFile' = IF fp = "fpout"
                         THEN FileWrite(outFile, PrintLine(NextByte.u)) ELSE outFile
           /\ trigFile' = IF fp = "fptrig"
                          THEN FileWrite(trigFile, PrintLine(NextByte.u)) ELSE trigFile
    /\ NComNewChar(NextByte)
    /\ ReportIfDue
    /\ UNCHANGED <<envVars, ptrVars, released, stderrLog, exitStatus, pc>>

\* print(fp, nrx) with fp == NULL, assert() compiled in: assert(fp) fails,
\* the message goes to stderr and abort() ends the process.  Nothing is
\* reported, closed or destroyed.
FeedUpdateAssertFails ==
    /\ pc = "loop"
    /\ ~AtEOF(inPos, input.len)
    /\ NextByte.k = "update"
    /\ LET fp == SinkFor(NextByte.u.mOutputPacketType)
       IN  fp # "none" /\ FpOf(fp) = NULL
    /\ ~ndebug
    /\ NComNewChar(NextByte)
    /\ stderrLog' = Append(stderrLog, "assert")
    /\ exitStatus' = SIGABRT
    /\ pc' = "aborted"
    /\ UNCHANGED <<envVars, ptrVars, sinkVars, released, stdoutLog>>

\* print(fp, nrx) with fp == NULL, assert() compiled out: fprintf(NULL, ...)
\* is undefined.  The C library either faults on the null stream, or
\* rejects it and every fprintf of print() returns an error.
FeedUpdateNullStream ==
    /\ pc = "loop"
    /\ ~AtEOF(inPos, input.len)
    /\ NextByte.k = "update"
    /\ LET fp == SinkFor(NextByte.u.mOutputPacketType)
       IN  fp # "none" /\ FpOf(fp) = NULL
    /\ ndebug
    /\ NComNewChar(NextByte)
    /\ \/ /\ exitStatus' = SIGSEGV
          /\ pc' = "aborted"
          /\ UNCHANGED stdoutLog
       \/ /\ ReportIfDue
          /\ UNCHANGED <<exitStatus, pc>>
    /\ UNCHANGED <<envVars, ptrVars, sinkVars, released, stderrLog>>

\* fgetc returns EOF: the final report(nrx), printf("\n"), the clean up
\* and return EXIT_SUCCESS.
EndOfStream ==
    /\ pc = "loop"
    /\ AtEOF(inPos, input.len)
    /\ stdoutLog' = stdoutLog \o <<ProgressLine(numChars, numPackets, skippedChars),
                                   StdoutNewline>>
    /\ released' = Release(NonNullFiles \cup {"nrx"})
    /\ exitStatus' = EXIT_SUCCESS
    /\ pc' = "exited"
    /\ UNCHANGED <<envVars, ptrVars, decoderVars, sinkVars, stderrLog>>

Next ==
    \/ UsageError
    \/ ArgsOk
    \/ OpenInputOk
    \/ OpenInputFail
    \/ OpenOutputOk
    \/ OpenOutputFail
    \/ NoTriggerFile
    \/ OpenTriggerOk
    \/ OpenTriggerFail
    \/ CreateOk
    \/ CreateFail
    \/ FeedNoUpdate
    \/ FeedUpdateNotPrinted
    \/ FeedUpdatePrinted
    \/ FeedUpdateAssertFails
    \/ FeedUpdateNullStream
    \/ EndOfStream

Spec == Init /\ [][Next]_vars

(***************************************************************************)
(* print() on its own: one call on an update whose flags, type and times   *)
(* are drawn from the sets below.                                          *)
(***************************************************************************)
\* GPS times: 1000000000 s and times that bring the sum with gps2machine
\* below zero, with fractions around the rounding boundaries.
SatTimes ==
    {Dbl(1000000000, f) : f \in {0, 4, 5, 5000, 9994, 9995, 9999}}
    \cup {Dbl(s, f) : s \in {-315964800, -315964819}, f \in {0, -1, -5000, -9995, -9999}}

UtcOffsets == {Dbl(18, 0), Dbl(0, 0), Dbl(-1, -5000), Dbl(0, 9999)}

FormatUpdates ==
    {Update(t, tv, time, off, lav, 1500000004, lov, -15, dv, 12345) :
        t \in PacketTypes, tv \in BOOLEAN, time \in SatTimes, off \in UtcOffsets,
        lav \in BOOLEAN, lov \in BOOLEAN, dv \in BOOLEAN}

InitFormat ==
    /\ InitCommon
    /\ ndebug = FALSE
    /\ argc = 3
    /\ input = [len |-> 0, at |-> <<>>]
    /\ snapshot \in FormatUpdates
    /\ pc = "print"

\* print(fpout, nrx) returns: the line is in the file.
PrintCall ==
    /\ pc = "print"
    /\ outFile' = FileWrite(outFile, PrintLine(snapshot))
    /\ pc' = "printed"
    /\ UNCHANGED <<envVars, ptrVars, decoderVars, trigFile, released,
                   stdoutLog, stderrLog, exitStatus>>

\* localtime(&t1) returns NULL and td->tm_year faults before the first
\* fprintf: nothing is written.
PrintLocaltimeFails ==
    /\ pc = "print"
    /\ LocaltimeMayFail(snapshot)
    /\ exitStatus' = SIGSEGV
    /\ pc' = "aborted"
    /\ UNCHANGED <<envVars, ptrVars, decoderVars, sinkVars, released,
                   stdoutLog, stderrLog>>

NextFormat == PrintCall \/ PrintLocaltimeFails

SpecFormat == InitFormat /\ [][NextFormat]_vars

(***************************************************************************)
(* Vocabulary of the properties.                                           *)
(***************************************************************************)
IsRegular(u) == u.mOutputPacketType = OUTPUT_PACKET_REGULAR
IsIn1Down(u) == u.mOutputPacketType = OUTPUT_PACKET_IN1DOWN
IsReport(e) == e.k = "report"

\* The lines of a sequence of updates, in order.
LinesOf(us) == [i \in 1..Len(us) |-> PrintLine(us[i])]

IsPrefix(a, b) == Len(a) <= Len(b) /\ \A i \in 1..Len(a) : a[i] = b[i]

\* The progress lines printed so far.
Reports == SelectSeq(stdoutLog, IsReport)

\* The process has ended.
Ended == pc \in {"exited", "aborted"}

\* Every acquisition of the setup succeeded.
SetupDone == nrx = "NComRxC"

\* A setup failure was detected.
SetupFailed ==
    /\ stderrLog # <<>>
    /\ stderrLog[1] \in {"input", "output", "trigger", "decoder"}

\* The resource was acquired.
Acquired(r) ==
    CASE r = "fpin" -> fpin # NULL
      [] r = "fpout" -> fpout # NULL
      [] r = "fptrig" -> fptrig # NULL
      [] r = "nrx" -> nrx = "NComRxC"

\* The columns of a line: column n is made of the pieces that follow n - 1
\* delimiters.
DelimsBefore(line, i) == Cardinality({j \in 1..(i - 1) : line[j].k = ","})
NumColumns(line) == DelimsBefore(line, Len(line) + 1) + 1
Column(line, n) ==
    {i \in 1..Len(line) : line[i].k \notin {",", "\n"} /\ DelimsBefore(line, i) = n - 1}

(***************************************************************************)
(* C1: routing is by classification only.  On every step in which the      *)
(* decoder signals an update: a Regular update is appended to the primary  *)
(* file and leaves the trigger file alone; a TriggerFallingEdge update     *)
(* leaves the primary file alone; an update of any other type leaves both  *)
(* files alone.                                                            *)
(***************************************************************************)
C1_RoutingByClassification ==
    [][ (numPackets' = numPackets + 1) =>
          LET u == snapshot'
          IN  /\ IsRegular(u) =>
                   /\ outFile' = Append(outFile, PrintLine(u))
                   /\ trigFile' = trigFile
              /\ IsIn1Down(u) => outFile' = outFile
              /\ (~IsRegular(u) /\ ~IsIn1Down(u)) =>
                   /\ outFile' = outFile
                   /\ trigFile' = trigFile ]_vars

\* A run that saw an update of each of the three types and has one line in
\* each file.
C1_Witness ==
    /\ \E i \in 1..Len(signalled) : IsRegular(signalled[i])
    /\ \E i \in 1..Len(signalled) : IsIn1Down(signalled[i])
    /\ \E i \in 1..Len(signalled) :
          ~IsRegular(signalled[i]) /\ ~IsIn1Down(signalled[i])
    /\ Len(outFile) = 1
    /\ Len(trigFile) = 1

(***************************************************************************)
(* C2: the trigger sink is optional.  In a run without a trigger file, a   *)
(* TriggerFallingEdge update writes nothing and the run goes on: the       *)
(* process is still running or has exited with success, and the files hold *)
(* only the lines of the Regular updates.                                  *)
(***************************************************************************)
C2_TriggerSinkOptional ==
    (/\ SetupDone
     /\ fptrig = NULL
     /\ \E i \in 1..Len(signalled) : IsIn1Down(signalled[i]))
    => /\ exitStatus \in {"running", EXIT_SUCCESS}
       /\ trigFile = <<>>
       /\ outFile = LinesOf(SelectSeq(signalled, IsRegular))

(***************************************************************************)
(* C3: when the process has ended, on whatever path, every resource that   *)
(* was acquired has been released exactly once and no other resource has   *)
(* been released.                                                          *)
(***************************************************************************)
C3_ReleasedExactlyOnce ==
    Ended => \A r \in Resources : released[r] = (IF Acquired(r) THEN 1 ELSE 0)

(***************************************************************************)
(* C4: every line that print() produces has five columns, whatever the     *)
(* validity flags and the packet type; a column is empty exactly when its  *)
(* flag is false, and with the time invalid the first two columns are both *)
(* empty.                                                                  *)
(***************************************************************************)
C4_FixedColumns ==
    \A n \in 1..Len(outFile) :
        LET line == outFile[n]
        IN  /\ NumColumns(line) = 5
            /\ line[Len(line)] = Newline
            /\ \A i \in 1..(Len(line) - 1) : line[i].k # "\n"
            /\ (Column(line, 1) = {}) = ~snapshot.mIsTimeValid
            /\ (Column(line, 2) = {}) = ~snapshot.mIsTimeValid
            /\ (Column(line, 3) = {}) = ~snapshot.mIsLatValid
            /\ (Column(line, 4) = {}) = ~snapshot.mIsLonValid
            /\ (Column(line, 5) = {}) = ~snapshot.mIsDist2dValid

\* A line was printed for an update whose time is invalid and whose
\* other fields are not all valid.
C4_Witness ==
    /\ pc = "printed"
    /\ Len(outFile) = 1
    /\ ~snapshot.mIsTimeValid
    /\ snapshot.mIsLatValid
    /\ ~snapshot.mIsLonValid
    /\ outFile[1] = <<Delim, Delim, [k |-> "%.8f", v |-> 150000000], Delim, Delim, Newline>>

(***************************************************************************)
(* C5: at every point of a run the primary file holds exactly the lines of *)
(* the Regular updates signalled so far, in decode order, and the trigger  *)
(* file, when the run has one, exactly the lines of the                    *)
(* TriggerFallingEdge updates signalled so far, in decode order.  A byte   *)
(* whose feed signals no update writes no line, and a step only ever       *)
(* appends to a file.                                                      *)
(***************************************************************************)
C5_SinksInDecodeOrder ==
    /\ [](/\ outFile = LinesOf(SelectSeq(signalled, IsRegular))
          /\ fptrig # NULL => trigFile = LinesOf(SelectSeq(signalled, IsIn1Down))
          /\ fptrig = NULL => trigFile = <<>>)
    /\ [][ /\ IsPrefix(outFile, outFile')
           /\ IsPrefix(trigFile, trigFile')
           /\ (numChars' = numChars + 1 /\ numPackets' = numPackets) =>
                 (outFile' = outFile /\ trigFile' = trigFile) ]_vars

\* Two different Regular updates and a TriggerFallingEdge update were
\* decoded, the second Regular one last, after a byte without update.
C5_Witness ==
    /\ Len(outFile) = 2
    /\ outFile[1] # outFile[2]
    /\ Len(trigFile) = 1
    /\ IsRegular(signalled[Len(signalled)])
    /\ outFile[2] = PrintLine(signalled[Len(signalled)])

(***************************************************************************)
(* C6: in a run whose setup succeeded, a progress line follows a fed byte  *)
(* exactly when the number of bytes consumed is then a multiple of 4096,   *)
(* and one more progress line follows the end of the stream: the number of *)
(* progress lines is the number of multiples of 4096 among 1..numChars,    *)
(* plus one once the stream has ended, and each line shows the counters at *)
(* its time.                                                               *)
(***************************************************************************)
C6_ProgressCadence ==
    SetupDone =>
        /\ Len(Reports) = (numChars \div BlockBytes)
                          + (IF exitStatus = EXIT_SUCCESS THEN 1 ELSE 0)
        /\ \A i \in 1..Len(Reports) :
              Reports[i].chars = (IF i <= numChars \div BlockBytes
                                  THEN i * BlockBytes ELSE numChars)

(***************************************************************************)
(* C7: a setup failure is fatal and precedes any conversion: once an open  *)
(* of the input, output or trigger file, or the creation of the decoder,   *)
(* has failed, no byte was fed, no line was written, no progress line was  *)
(* printed, the failure was reported once and the process has exited with  *)
(* EXIT_FAILURE.                                                           *)
(***************************************************************************)
C7_SetupFailureIsFatal ==
    SetupFailed =>
        /\ numChars = 0
        /\ lastFed = 0
        /\ inPos = 0
        /\ outFile = <<>>
        /\ trigFile = <<>>
        /\ Reports = <<>>
        /\ Len(stderrLog) = 1
        /\ pc = "exited"
        /\ exitStatus = EXIT_FAILURE

\* The trigger file could not be opened, for a non-empty input with an
\* update in it.
C7_Witness ==
    /\ stderrLog = <<"trigger">>
    /\ exitStatus = EXIT_FAILURE
    /\ input.len > 0
    /\ ByteAt(input, 1).k = "update"

(***************************************************************************)
(* C8: for every GPS time and UTC offset, the whole seconds t1 printed in  *)
(* the calendar field are the floor of mTime + 315964800 + mTimeUtcOffset  *)
(* (t1 <= sum < t1 + 1, also for a negative sum), the milliseconds are in  *)
(* 0..999, they are the fraction times 1000 rounded to nearest, 999 when   *)
(* that would be 1000, and 0 when the fraction is 0.                       *)
(***************************************************************************)
C8_TimeNormalizer ==
    (pc = "printed" /\ snapshot.mIsTimeValid) =>
        LET cal == outFile[1][3]
            sumS == snapshot.mTime.s + Gps2MachineSecs + snapshot.mTimeUtcOffset.s
            sumF == snapshot.mTime.f + snapshot.mTimeUtcOffset.f
            frac == (sumS - cal.t1) * TicksPerSec + sumF
        IN  /\ cal.k = "calendar"
            /\ 0 <= frac /\ frac < TicksPerSec
            /\ cal.ms \in 0..MsMax
            /\ frac = 0 => cal.ms = 0
            /\ IF 2 * frac * 1000 >= (2 * MsMax + 1) * TicksPerSec
               THEN cal.ms = MsMax
               ELSE /\ 2 * (cal.ms * TicksPerSec - frac * 1000) <= TicksPerSec
                    /\ 2 * (frac * 1000 - cal.ms * TicksPerSec) < TicksPerSec

\* A time before 1970 whose fraction, 0.9999, would round to 1000 ms.
C8_Witness ==
    /\ pc = "printed"
    /\ snapshot.mIsTimeValid
    /\ snapshot.mTime = Dbl(-315964819, -1)
    /\ snapshot.mTimeUtcOffset = Dbl(18, 0)
    /\ outFile[1][3] = [k |-> "calendar", t1 |-> -2, ms |-> 999]

C10_RunEndsInSuccess ==
    (SetupDone /\ Ended) =>
        /\ exitStatus = EXIT_SUCCESS
        /\ inPos = input.len
        /\ Len(stdoutLog) >= 2
        /\ stdoutLog[Len(stdoutLog) - 1] = ProgressLine(numChars, numPackets, skippedChars)

=============================================================================
